---- MODULE Spec2Model ----
(***************************************************************************)
(* A model of the bench workspace manager.                                 *)
(*                                                                         *)
(* Two revisions of the service module are in the repository:              *)
(*   "service"  : src/src/service.ts      (imports apps/chrome/chrome.ts)  *)
(*   "part_005" : src/unnamed/part_005    (imports tools/chrome/chrome.ts) *)
(* The variable `version` says which of the two is running; it is chosen   *)
(* in Init and never changes.                                              *)
(*                                                                         *)
(* The persisted store (bench.json) is `store`; the i3 tree is `tree`; the *)
(* windows of the browser, as the companion extension reports them, are    *)
(* `browser`.  A command (selectWorkspace, sync, newWorkspace,             *)
(* removeWorkspace) runs to its end in one step; what the environment does *)
(* while it runs (how many windows a launch makes appear) is an input of   *)
(* the step.  Spec is the specification of the commands.                   *)
(*                                                                         *)
(* SpecTabs is the tab-sync server of tools/chrome/chrome.ts on its own,   *)
(* one step per stretch of a handler between two awaits.  SpecDiscover is  *)
(* the correlation of two snapshots on its own, over all small snapshots.  *)
(* FairSpecSnapshots is the two ways of asking for the tabs, under weak    *)
(* fairness.  SpecLoop is the sync loop of the daemon, SpecOverlap one     *)
(* iteration of it next to open commands of a client.  SpecLaunch is the   *)
(* open command in a world where terminals open as well and the companion *)
(* may connect during a launch.  SpecTools is launchTool of tool.ts.       *)
(* FairSpecCompanion is the tab-sync server with the push loop of the     *)
(* companion extension as its poster.  SpecTraverse, SpecBenches and       *)
(* SpecTmux apply one function each to all small inputs: the tree search   *)
(* of the i3 adapter, the bench store of cli.ts, the tmux app.             *)
(***************************************************************************)
EXTENDS Integers, Sequences, FiniteSets, TLC

\* ---------------------------------------------------------------- bounds
MaxNew == 2
MaxWin == 3

VARIABLES
  version,       \* the revision of the service module that runs
  store,         \* the persisted store (bench.json): a list of Workspace
  tree,          \* the window nodes of the i3 tree
  browser,       \* the browser's windows and their tabs
  extConnected,  \* the companion extension is connected and answers
  nextId,        \* the next window id handed out (a window that is both in
                 \* the tree and in the browser has the same number in both)
  last,          \* the last command: what was called, what it did, how it ended
  prevFocus,     \* the workspace the command before it focused ("": it focused none)
  quiet,         \* the environment did nothing since the last command ended
  tabs,          \* tab-sync server: the stored mapping (NoTabs: null)
  inflight,      \* tab-sync server: the /tabs requests that passed the check
                 \* `if (tabs)` and are reading their body
  requests,      \* tab-sync server: the /get-tabs requests received so far
  clock,         \* tab-sync server: counts what the server received and stored
  wsCall,        \* getTabs over the WebSocket: one call and the extension
  probe,         \* window discovery on its own: the snapshots and the result
  loop,          \* the continuous sync loop: where it is, the writes under way
  toolbox,       \* launchTool: the tools file, the calls made, the last result
  companion,     \* the push loop of the companion extension: where it is
  call           \* a function called on its own: its name, input and result

benchVars == <<version, store, tree, browser, extConnected, nextId,
               last, prevFocus, quiet>>
serverVars == <<tabs, inflight, requests, clock, wsCall>>
vars == <<version, store, tree, browser, extConnected, nextId,
          last, prevFocus, quiet, tabs, inflight, requests, clock, wsCall,
          probe, loop, toolbox, companion, call>>

Versions == {"service", "part_005"}
WorkspaceNames == {"A", "B"}

\* ------------------------------------------------------------ data model
\* An App.  i3WindowId = 0 stands for an app without the i3WindowId key
\* (BaseApp); any other value is the tracked container id (OpenedApp).
\* data.chromeWindowId = 0 stands for "no browser window recorded".
App(name, i3Workspace, id, urls, cw) ==
  [name |-> name, i3Workspace |-> i3Workspace, i3WindowId |-> id,
   data |-> [urls |-> urls, chromeWindowId |-> cw]]

isOpened(app) == app.i3WindowId # 0

Workspace(name, opened, apps) ==
  [name |-> name, isOpened |-> opened, apps |-> apps]

\* ------------------------------------------------------------- i3 adapter
\* The tree is kept as the list of its window nodes in traversal order.
Node(id, class) == [id |-> id, class |-> class]

getTree(m) == m.tree

RECURSIVE findNodeIdsByClass(_, _)
findNodeIdsByClass(treeNodes, className) ==
  IF treeNodes = <<>> THEN <<>>
  ELSE LET rest == findNodeIdsByClass(Tail(treeNodes), className)
       IN IF Head(treeNodes).class = className
          THEN <<Head(treeNodes).id>> \o rest
          ELSE rest

Includes(seq, x) == \E k \in 1..Len(seq) : seq[k] = x

\* seq.filter((w) => !other.includes(w))
RECURSIVE FilterNotIn(_, _)
FilterNotIn(seq, other) ==
  IF seq = <<>> THEN <<>>
  ELSE IF Includes(other, Head(seq))
       THEN FilterNotIn(Tail(seq), other)
       ELSE <<Head(seq)>> \o FilterNotIn(Tail(seq), other)

\* One entry of the record of what a command did, in the order it did it:
\*   "scratchpad" id        i3-msg [id=<id>] move container to scratchpad
\*   "move" id ws           i3-msg [con_id=<id>] move container to workspace <ws>
\*   "launch" ws urls       a process is spawned (ws: "chromium" or "terminal")
\*   "stale" id             the log line "App is opened but window is not found"
\*   "found" id             the log line "Found new I3 window"
\*   "save"                 saveToFs
\* app is the index of the app the entry is about (0: none).
Event(k, app, id, ws, urls) ==
  [k |-> k, app |-> app, id |-> id, ws |-> ws, urls |-> urls]

Emit(m, ev) == [m EXCEPT !.trace = Append(@, ev)]

\* The X11 window of the container `id`: TreeNode keeps the two apart (`id`
\* and `window`).  Container ids are i3's own, window ids are handed out by
\* the X server; no window id is the id of a container.
X11Window(id) == id + MaxWin + 1

\* Does the command logged as `ev` act on the container `id`?  i3 matches
\* [con_id=n] against the container id and [id=n] against the X11 window id.
Matches(ev, id) ==
  IF ev.k = "move" THEN ev.id = id
  ELSE IF ev.k = "scratchpad" THEN ev.id = X11Window(id)
  ELSE FALSE

\* Where the commands of `trace` leave the container `id`: "scratchpad", the
\* workspace of the last move that matched it, or "" when none matched.
RECURSIVE Placement(_, _)
Placement(trace, id) ==
  IF trace = <<>> THEN ""
  ELSE LET ev == trace[Len(trace)]
       IN IF Matches(ev, id)
          THEN IF ev.k = "scratchpad" THEN "scratchpad" ELSE ev.ws
          ELSE Placement(SubSeq(trace, 1, Len(trace) - 1), id)

moveToWindowWorkspace(m, i, windowId, workspaceId) ==
  Emit(m, Event("move", i, windowId, workspaceId, <<>>))

moveWindowToScratchPad(m, i, windowId) ==
  Emit(m, Event("scratchpad", i, windowId, "", <<>>))

\* --------------------------------------------------- the run of one command
\* The working state of one command while it runs: its in-memory copy of the
\* store (ws), the world it acts on (tree, browser, id counter), what it did
\* so far (trace), what the environment did while it opened apps (env), how
\* it ended (status, error) and, inside openApp, the OpenedApp it returns
\* (ret).  status: "run" while it runs, then "ok" (returned after saveToFs),
\* "notfound" / "return" (returned early), "throw" (raised error) or "hang"
\* (waits for an answer that never comes).
Start(workspaces) ==
  [ws |-> workspaces, tree |-> tree, browser |-> browser,
   ext |-> extConnected, nextId |-> nextId, base |-> nextId,
   trace |-> <<>>, env |-> <<>>,
   status |-> "run", error |-> "", ret |-> App("", "", 0, <<>>, 0)]

Throw(m, msg) == [m EXCEPT !.status = "throw", !.error = msg]

\* What the environment does while one app is opened: nb new windows appear
\* in the browser and ni new Chromium containers appear in the i3 tree
\* between the two snapshots.  The new windows are numbered from nextId; the
\* first nb of them are in the browser, the first ni of them in the tree.
\* Besides, nt terminal windows (class XTerm) appear in the tree, numbered
\* after those, and conn tells whether the companion connects while the
\* browser is started.
Outcomes == [nb : 0..MaxNew, ni : 0..MaxNew, nt : {0}, conn : {FALSE}]

\* The same with terminals and a companion that connects in the meantime.
MaxTerm == 1
OutcomesLaunch ==
  [nb : 0..MaxTerm, ni : 0..MaxTerm, nt : 0..MaxTerm, conn : BOOLEAN]

Max(a, b) == IF a >= b THEN a ELSE b

\* ----------------------------------------------------------- browser side
BrowserWindow(cw, urls) == [cw |-> cw, urls |-> urls]

\* Object.keys(tabDict)
Keys(tabDict) == [k \in 1..Len(tabDict) |-> tabDict[k].cw]

\* tabDict[id] ?? []
TabsOf(tabDict, cw) ==
  IF Includes(Keys(tabDict), cw)
  THEN (CHOOSE b \in {tabDict[k] : k \in 1..Len(tabDict)} : b.cw = cw).urls
  ELSE <<>>

\* getTabs of apps/chrome/chrome.ts (WebSocket): the empty mapping when the
\* extension is not connected, else the mapping the extension answers with.
getTabsWs(m) == IF m.ext THEN m.browser ELSE <<>>

\* The numbers of the windows that appear while one app is opened are taken
\* from nextId on (base is the first of them).
Reserve(m, i, e) ==
  [m EXCEPT !.base = m.nextId, !.nextId = @ + Max(e.nb, e.ni) + e.nt,
            !.env = Append(@, [app |-> i, nb |-> e.nb, ni |-> e.ni,
                               nt |-> e.nt, conn |-> e.conn])]

\* Bun.spawnSync(["chromium", "--new-window", ...urls]) and the nb windows the
\* browser has afterwards that it did not have before.
SpawnChromium(m, i, urls, e) ==
  LET fresh == [k \in 1..e.nb |->
                  BrowserWindow(m.base + k - 1, IF k = 1 THEN urls ELSE <<>>)]
  IN [Emit(m, Event("launch", i, 0, "chromium", urls))
        EXCEPT !.browser = @ \o fresh]

\* The ni Chromium containers the tree has at the second snapshot and did not
\* have at the first.
TreeGrows(m, e) ==
  [m EXCEPT !.tree =
     @ \o [k \in 1..e.ni |-> Node(m.base + k - 1, "Chromium")]
       \o [k \in 1..e.nt |-> Node(m.base + Max(e.nb, e.ni) + k - 1, "XTerm")]]

\* Discover with the two snapshots taken for one another.
DiscoverReversed(before, after) == FilterNotIn(before, after)

\* The correlation step shared by launchApp, ChromeApp.openApp and openApp:
\* the ids of `after` that are not in `before`.
Discover(before, after) == FilterNotIn(after, before)

\* The end of launchApp (apps/chrome) and of ChromeApp.openApp (tools/chrome):
\* the error raised, or the window id taken when there is none.
CorrelateBrowser(oldWindowIds, newWindowIds) ==
  LET diffWindowIds == Discover(oldWindowIds, newWindowIds)
  IN IF Len(diffWindowIds) > 1
     THEN [error |-> "Too many new windows", id |-> 0]
     ELSE IF Len(diffWindowIds) = 0
          THEN [error |-> "No new window found", id |-> 0]
          ELSE [error |-> "", id |-> diffWindowIds[1]]

\* The end of openApp (service): the same on the i3 container ids.
CorrelateI3(prevWindowIds, nextWindowIds) ==
  LET newWindows == Discover(prevWindowIds, nextWindowIds)
  IN IF Len(newWindows) > 1
     THEN [error |-> "Too many new i3 windows", id |-> 0]
     ELSE IF Len(newWindows) = 0
          THEN [error |-> "No new i3 windows", id |-> 0]
          ELSE [error |-> "", id |-> newWindows[1]]

\* websocket.open: the companion connects (extentionWs is set) while the
\* browser is started.
Joined(m, e) == IF e.conn THEN [m EXCEPT !.ext = TRUE] ELSE m

\* launchApp of apps/chrome/chrome.ts, on app i of workspace w.
launchApp(m, w, i, e) ==
  LET app == m.ws[w].apps[i]
      oldTabs == getTabsWs(m)
      m1 == Joined(SpawnChromium(m, i, app.data.urls, e), e)
      newTabs == getTabsWs(m1)
      c == CorrelateBrowser(Keys(oldTabs), Keys(newTabs))
  IN IF c.error # "" THEN Throw(m1, c.error)
     ELSE [m1 EXCEPT !.ws[w].apps[i].data.chromeWindowId = c.id]

\* ChromeApp.openApp of tools/chrome/chrome.ts, as part_005 calls it: with the
\* App itself where a ChromeAppState is expected.  It first awaits getTabs
\* (GET /get-tabs, answered only once the companion has pushed); appState.urls
\* is then undefined and building the command ([..., ...appState.urls]) raises
\* a TypeError before anything is spawned.
ChromeAppOpenApp(m, w, i, e) ==
  IF extConnected THEN Throw(m, "TypeError") ELSE [m EXCEPT !.status = "hang"]

\* TmuxApp.openApp: spawns the terminal; it creates no Chromium window itself.
\* A terminal that fails to start (result.success false) is left out.
TmuxAppOpenApp(m, w, i, e) ==
  Emit(m, Event("launch", i, 0, "terminal", <<>>))

\* ------------------------------------------------------------- the service
\* isActuallyOpened finding no tracked window in the tree.
isActuallyOpenedNever(prevWindowIds, app) == FALSE

\* isActuallyOpened of openApp: prevWindowIds.find((w) => w == app.i3WindowId)
isActuallyOpened(prevWindowIds, app) == Includes(prevWindowIds, app.i3WindowId)

\* openApp of src/src/service.ts: works on the app object of the in-memory
\* store, so what it assigns is what saveToFs writes later.
openAppService(m, w, i, e) ==
  LET app == m.ws[w].apps[i]
      prevWindowIds == findNodeIdsByClass(getTree(m), "Chromium")
  IN IF isOpened(app) /\ isActuallyOpened(prevWindowIds, app)
     THEN [m EXCEPT !.ret = app]
     ELSE
       LET ma == IF isOpened(app)
                 THEN [Emit(m, Event("stale", i, app.i3WindowId, "", <<>>))
                         EXCEPT !.ws[w].apps[i].i3WindowId = 0]
                 ELSE m
           m0 == Reserve(ma, i, e)
           m1 == IF app.name = "chrome" THEN launchApp(m0, w, i, e) ELSE m0
           m2 == TreeGrows(m1, e)
       IN IF m1.status = "throw" THEN m2
          ELSE
            LET nextWindowIds == findNodeIdsByClass(getTree(m2), "Chromium")
                c == CorrelateI3(prevWindowIds, nextWindowIds)
            IN IF c.error # "" THEN Throw(m2, c.error)
               ELSE LET m3 == [Emit(m2, Event("found", i, c.id, "", <<>>))
                                 EXCEPT !.ws[w].apps[i].i3WindowId = c.id]
                    IN [m3 EXCEPT !.ret = m3.ws[w].apps[i]]

\* openApp of src/unnamed/part_005: returns copies ({...rest}, {...app, id})
\* and leaves the app object of the in-memory store as it was.
openAppPart005(m, w, i, e) ==
  LET app == m.ws[w].apps[i]
      prevWindowIds == findNodeIdsByClass(getTree(m), "Chromium")
  IN IF isOpened(app)
     THEN IF isActuallyOpened(prevWindowIds, app)
          THEN [m EXCEPT !.ret = app]
          ELSE [Emit(m, Event("stale", i, app.i3WindowId, "", <<>>))
                  EXCEPT !.ret = [app EXCEPT !.i3WindowId = 0]]
     ELSE
       LET m1 == IF app.name = "chrome" THEN ChromeAppOpenApp(m, w, i, e)
                 ELSE IF app.name = "tmux" THEN TmuxAppOpenApp(m, w, i, e)
                 ELSE m
       IN IF m1.status # "run" THEN m1
          ELSE
            LET m2 == TreeGrows(Reserve(m1, i, e), e)
                nextWindowIds == findNodeIdsByClass(getTree(m2), "Chromium")
                c == CorrelateI3(prevWindowIds, nextWindowIds)
            IN IF c.error # "" THEN Throw(m2, c.error)
               ELSE [Emit(m2, Event("found", i, c.id, "", <<>>))
                       EXCEPT !.ret = [app EXCEPT !.i3WindowId = c.id]]

openApp(m, w, i, e) ==
  IF version = "service" THEN openAppService(m, w, i, e)
  ELSE openAppPart005(m, w, i, e)

\* FindByName falling back on the first workspace for an unknown name.
FindByNameOrFirst(workspaces, name) ==
  IF \E k \in 1..Len(workspaces) : workspaces[k].name = name
  THEN CHOOSE k \in 1..Len(workspaces) : workspaces[k].name = name
  ELSE IF Len(workspaces) > 0 THEN 1 ELSE 0

\* workspaces.find((w) => w.name === workspaceName), as an index; 0: none.
FindByName(workspaces, name) ==
  IF \E k \in 1..Len(workspaces) : workspaces[k].name = name
  THEN CHOOSE k \in 1..Len(workspaces) :
         /\ workspaces[k].name = name
         /\ \A j \in 1..(k - 1) : workspaces[j].name # name
  ELSE 0

\* workspaces.find((w) => w.isOpened), as an index; 0: none.
FindOpened(workspaces) ==
  IF \E k \in 1..Len(workspaces) : workspaces[k].isOpened
  THEN CHOOSE k \in 1..Len(workspaces) :
         /\ workspaces[k].isOpened
         /\ \A j \in 1..(k - 1) : ~workspaces[j].isOpened
  ELSE 0

\* The loop over the apps of the currently opened workspace c, from app i.
RECURSIVE StowFrom(_, _, _)
StowFrom(m, c, i) ==
  IF i > Len(m.ws[c].apps) THEN m
  ELSE LET app == m.ws[c].apps[i]
       IN IF ~isOpened(app) THEN [m EXCEPT !.status = "return"]
          ELSE StowFrom(moveWindowToScratchPad(m, i, app.i3WindowId), c, i + 1)

\* StowCurrent without `currentlyOpenedWorkspace.isOpened = false`.
StowCurrentKeepingFlag(m) ==
  LET c == FindOpened(m.ws)
  IN IF c = 0 THEN m ELSE StowFrom(m, c, 1)

\* The statement block `if (currentlyOpenedWorkspace) { ... }`.
StowCurrent(m) ==
  LET c == FindOpened(m.ws)
  IN IF c = 0 THEN m
     ELSE StowFrom([m EXCEPT !.ws[c].isOpened = FALSE], c, 1)

\* AssembleFrom starting the launch of the next app before the app at hand
\* has been opened.
RECURSIVE AssembleFromOverlapping(_, _, _, _)
AssembleFromOverlapping(m, w, i, es) ==
  IF i > Len(m.ws[w].apps) THEN m
  ELSE LET early == IF i < Len(m.ws[w].apps)
                    THEN Emit(m, Event("launch", i + 1, 0, "chromium", <<>>))
                    ELSE m
           r == openApp(early, w, i, es[i])
       IN IF r.status # "run" THEN r
          ELSE AssembleFromOverlapping(
                 moveToWindowWorkspace(r, i, r.ret.i3WindowId, r.ret.i3Workspace),
                 w, i + 1, es)

\* The loop over the apps of the target workspace w, from app i; es[i] is
\* what the environment does while app i is opened.
RECURSIVE AssembleFrom(_, _, _, _)
AssembleFrom(m, w, i, es) ==
  IF i > Len(m.ws[w].apps) THEN m
  ELSE LET r == openApp(m, w, i, es[i])
       IN IF r.status # "run" THEN r
          ELSE AssembleFrom(
                 moveToWindowWorkspace(r, i, r.ret.i3WindowId, r.ret.i3Workspace),
                 w, i + 1, es)

\* saveToFs(workspaces): the write of the in-memory store.
saveToFs(m) == [Emit(m, Event("save", 0, 0, "", <<>>)) EXCEPT !.status = "ok"]

\* selectWorkspace writing the store before it opens the apps of the target.
selectWorkspaceSavingFirst(workspaceName, es) ==
  LET m == Start(store)
      w == FindByName(m.ws, workspaceName)
  IN IF w = 0 THEN [m EXCEPT !.status = "notfound"]
     ELSE
       LET m1 == StowCurrent(m)
       IN IF m1.status # "run" THEN m1
          ELSE LET m2 == [saveToFs([m1 EXCEPT !.ws[w].isOpened = TRUE])
                            EXCEPT !.status = "run"]
                   m3 == AssembleFrom(m2, w, 1, es)
               IN IF m3.status # "run" THEN m3 ELSE [m3 EXCEPT !.status = "ok"]

\* selectWorkspace(workspaceName), from getFromFs to its end.
selectWorkspace(workspaceName, es) ==
  LET m == Start(store)
      w == FindByName(m.ws, workspaceName)
  IN IF w = 0 THEN [m EXCEPT !.status = "notfound"]
     ELSE
       LET m1 == StowCurrent(m)
       IN IF m1.status # "run" THEN m1
          ELSE LET m2 == [m1 EXCEPT !.ws[w].isOpened = TRUE]
                   m3 == AssembleFrom(m2, w, 1, es)
               IN IF m3.status # "run" THEN m3 ELSE saveToFs(m3)

\* syncApp leaving the urls as they are.
syncAppKeepsUrls(app, tabDict) == app

\* syncApp forgetting the tracked window as well.
syncAppDropsId(app, tabDict) ==
  [app EXCEPT !.data.urls = TabsOf(tabDict, app.data.chromeWindowId),
              !.i3WindowId = 0]

\* syncApp (apps/chrome and tools/chrome): app.data.urls = tabDict[id] ?? [].
syncApp(app, tabDict) ==
  [app EXCEPT !.data.urls = TabsOf(tabDict, app.data.chromeWindowId)]

\* The loop of sync over the apps of the opened workspace o.
SyncApps(m, o, tabDict) ==
  [m EXCEPT !.ws[o].apps =
     [i \in 1..Len(@) |->
        IF @[i].name = "chrome" THEN syncApp(@[i], tabDict) ELSE @[i]]]

HasChromeApp(workspace) ==
  \E i \in 1..Len(workspace.apps) : workspace.apps[i].name = "chrome"

\* sync(), from getFromFs to its end.  openededWorkspaces[0] is undefined when
\* no workspace is opened, and reading its apps raises a TypeError.  A getTabs
\* that is never answered (part_005: /get-tabs polls until a push arrives)
\* leaves the call waiting: status "hang".
sync ==
  LET m == Start(store)
      o == FindOpened(m.ws)
  IN IF o = 0 THEN Throw(m, "TypeError")
     ELSE IF ~HasChromeApp(m.ws[o]) THEN saveToFs(m)
     ELSE IF extConnected THEN saveToFs(SyncApps(m, o, m.browser))
     ELSE IF version = "service" THEN saveToFs(SyncApps(m, o, getTabsWs(m)))
          ELSE [m EXCEPT !.status = "hang"]

\* The workspace newWorkspace pushes: service.ts 193-197, part_005 225-238.
NewWorkspaceRecord(name) ==
  IF version = "service" THEN Workspace(name, FALSE, <<>>)
  ELSE Workspace(name, FALSE, <<App("chrome", "3", 0, <<"u1">>, 0)>>)

\* newWorkspace without the check that the name is already there.
newWorkspaceUnchecked(name) ==
  saveToFs([Start(store) EXCEPT !.ws = Append(@, NewWorkspaceRecord(name))])

newWorkspace(name) ==
  LET m == Start(store)
  IN IF FindByName(m.ws, name) # 0
       THEN [m EXCEPT !.status = "return", !.error = "already exists"]
     ELSE saveToFs([m EXCEPT !.ws = Append(@, NewWorkspaceRecord(name))])

\* workspaces.splice(index, 1)
Splice(seq, k) == SubSeq(seq, 1, k - 1) \o SubSeq(seq, k + 1, Len(seq))

\* removeWorkspace without the check of the index: splice(-1, 1) takes the
\* last workspace out.
removeWorkspaceUnchecked(name) ==
  LET m == Start(store)
      workspaceIndex == FindByName(m.ws, name)
  IN saveToFs([m EXCEPT !.ws = Splice(@, IF workspaceIndex = 0 THEN Len(m.ws)
                                         ELSE workspaceIndex)])

\* removeWorkspace of part_005 (service.ts has none).
removeWorkspace(name) ==
  LET m == Start(store)
      workspaceIndex == FindByName(m.ws, name)
  IN IF workspaceIndex = 0
       THEN [m EXCEPT !.status = "return", !.error = "not found"]
     ELSE saveToFs([m EXCEPT !.ws = Splice(@, workspaceIndex)])

\* ------------------------------------------------------------------ actions
\* The workspace a command focused: its argument when it was a selectWorkspace
\* that returned after saving, else "".
Focused(l) == IF l.op = "select" /\ l.status = "ok" THEN l.arg ELSE ""

\* How a command follows the command before it: "again" for a
\* selectWorkspace(b) right after a selectWorkspace(b) that returned after
\* saving, the environment having done nothing since; else "".
After(op, arg) ==
  IF op = "select" /\ Focused(last) = arg /\ quiet THEN "again" ELSE ""

\* Has the run r called saveToFs?
Saved(r) == \E k \in 1..Len(r.trace) : r.trace[k].k = "save"

\* A command has run and ended as r says: the store is what it saved (or what
\* it was), the world is what the command left.
Ran(op, arg, r) ==
  /\ r.nextId <= MaxWin + 1
  /\ store' = IF Saved(r) THEN r.ws ELSE store
  /\ tree' = r.tree
  /\ browser' = r.browser
  /\ nextId' = r.nextId
  /\ last' = [op |-> op, arg |-> arg, status |-> r.status, error |-> r.error,
              trace |-> r.trace, env |-> r.env, after |-> After(op, arg)]
  /\ prevFocus' = Focused(last)
  /\ quiet' = TRUE
  /\ extConnected' = r.ext
  /\ UNCHANGED <<version, serverVars, probe, loop, toolbox, companion, call>>

NumApps(name) ==
  LET w == FindByName(store, name)
  IN IF w = 0 THEN 0 ELSE Len(store[w].apps)

SelectWorkspace ==
  \E name \in WorkspaceNames :
    \E es \in [1..NumApps(name) -> Outcomes] :
      \E r \in {selectWorkspace(name, es)} : Ran("select", name, r)

Sync == \E r \in {sync} : Ran("sync", "", r)

NewWorkspace ==
  \E name \in WorkspaceNames :
    \E r \in {newWorkspace(name)} : Ran("new", name, r)

RemoveWorkspace ==
  /\ version = "part_005"
  /\ \E name \in WorkspaceNames :
       \E r \in {removeWorkspace(name)} : Ran("remove", name, r)

\* seq.filter((x) => x[field] !== id), for the tree (id) and the browser (cw)
WithoutNode(nodes, id) == SelectSeq(nodes, LAMBDA n : n.id # id)
WithoutWindow(windows, cw) == SelectSeq(windows, LAMBDA b : b.cw # cw)

\* The environment: a window is closed; it leaves the tree and the browser.
EnvCloseWindow ==
  /\ \E k \in 1..Len(tree) :
       /\ tree' = WithoutNode(tree, tree[k].id)
       /\ browser' = WithoutWindow(browser, tree[k].id)
  /\ quiet' = FALSE
  /\ UNCHANGED <<version, store, extConnected, nextId, last, prevFocus>>
  /\ UNCHANGED <<serverVars, probe, loop, toolbox, companion, call>>

\* The environment: the companion extension connects or goes away.
EnvExtension ==
  /\ extConnected' = ~extConnected
  /\ quiet' = FALSE
  /\ UNCHANGED <<version, store, tree, browser, nextId, last, prevFocus>>
  /\ UNCHANGED <<serverVars, probe, loop, toolbox, companion, call>>

\* ------------------------------------------------------------ initial state
\* The store a user wrote, or an earlier run left: workspace A and, in some,
\* workspace B, with apps that are not tracked yet or track window 1, and at
\* most one workspace opened.  Window 1 is a browser window that is open and
\* now shows u2; the companion extension has not connected yet.
Untracked(name) == App(name, "3", 0, <<"u1">>, 0)
Tracked(name) == App(name, "3", 1, <<"u1">>, 1)

InitAppsA ==
  {<<Tracked("chrome")>>,
   <<Untracked("chrome"), Untracked("chrome")>>,
   <<Untracked("tmux")>>}

InitStoresB ==
  {<<>>,
   <<Workspace("B", FALSE, <<Untracked("chrome")>>)>>,
   <<Workspace("B", TRUE, <<Untracked("chrome")>>)>>,
   <<Workspace("B", FALSE, <<Untracked("tmux")>>)>>}

\* The tab-sync server before any request; no discovery probed.
NoTabs == [received |-> 0, stored |-> 0]

ServerIdle ==
  /\ tabs = NoTabs
  /\ inflight = {}
  /\ requests = <<>>
  /\ clock = 0
  /\ wsCall = [state |-> "idle", ext |-> FALSE, ticks |-> 0, reply |-> "",
               alive |-> FALSE, delivered |-> FALSE]

ProbeIdle == probe = [level |-> "", before |-> <<>>, after |-> <<>>,
                      late |-> <<>>, error |-> "", id |-> 0]

\* No sync loop runs.
LoopIdle == loop = [pc |-> "idle", iter |-> 0, writing |-> {}]

\* No tools file, no launchTool called.
NoResult == [name |-> "", status |-> "none", error |-> "",
             containerId |-> 0, chromeWindowId |-> 0]

ToolsIdle == toolbox = [file |-> <<>>, calls |-> 0, last |-> NoResult]

\* The push loop of the companion is left out.
CompanionIdle == companion = [pc |-> "off", last |-> "none"]

\* No function is called on its own.
CallIdle == call = [op |-> "", arg |-> <<>>, result |-> <<>>, done |-> FALSE]

BenchInit ==
  /\ version \in Versions
  /\ \E a \in InitAppsA, b \in InitStoresB :
       store = <<Workspace("A", FALSE, a)>> \o b
  /\ tree = <<Node(1, "Chromium")>>
  /\ browser = <<BrowserWindow(1, <<"u2">>)>>
  /\ extConnected = FALSE
  /\ nextId = 2
  /\ last = [op |-> "none", arg |-> "", status |-> "none", error |-> "",
             trace |-> <<>>, env |-> <<>>, after |-> ""]
  /\ prevFocus = ""
  /\ quiet = TRUE

Init == BenchInit /\ ServerIdle /\ ProbeIdle /\ LoopIdle /\ ToolsIdle /\ CompanionIdle /\ CallIdle

Next ==
  \/ SelectWorkspace
  \/ Sync
  \/ NewWorkspace
  \/ RemoveWorkspace
  \/ EnvCloseWindow
  \/ EnvExtension

\* The commands of the service and its environment.
Spec == Init /\ [][Next]_vars

\* ------------------------------------------- launches in a wider world
\* selectWorkspace where terminals open too and the companion may connect
\* while the browser is started.
SelectLaunching ==
  \E name \in WorkspaceNames :
    \E es \in [1..NumApps(name) -> OutcomesLaunch] :
      \E r \in {selectWorkspace(name, es)} : Ran("select", name, r)

\* A terminal app that tracks container 1.
TrackedTerminal == App("tmux", "3", 1, <<>>, 0)

\* One window is there, a browser window or a terminal; workspace A has one
\* app: a browser or a terminal not tracked yet, or the terminal tracked.
InitLaunch ==
  /\ version \in Versions
  /\ \/ /\ store \in {<<Workspace("A", FALSE, <<Untracked("chrome")>>)>>,
                       <<Workspace("A", FALSE, <<Untracked("tmux")>>)>>}
        /\ tree = <<Node(1, "Chromium")>>
        /\ browser = <<BrowserWindow(1, <<"u2">>)>>
     \/ /\ store = <<Workspace("A", FALSE, <<TrackedTerminal>>)>>
        /\ tree = <<Node(1, "XTerm")>>
        /\ browser = <<>>
  /\ extConnected = FALSE
  /\ nextId = 2
  /\ last = [op |-> "none", arg |-> "", status |-> "none", error |-> "",
             trace |-> <<>>, env |-> <<>>, after |-> ""]
  /\ prevFocus = ""
  /\ quiet = TRUE
  /\ ServerIdle
  /\ ProbeIdle
  /\ LoopIdle
  /\ ToolsIdle
  /\ CompanionIdle
  /\ CallIdle

NextLaunch == SelectLaunching \/ EnvCloseWindow \/ EnvExtension

SpecLaunch == InitLaunch /\ [][NextLaunch]_vars

\* ------------------------------------------------------------ launchTool
\* src/src/tool.ts.  A Tool of the tools file; containerId = 0 stands for a
\* tool without the containerId key.
MaxCalls == 2

Tool(name, type, urls, containerId) ==
  [name |-> name, type |-> type, urls |-> urls, containerId |-> containerId]

\* isOpened of tool.ts: "containerId" in tool
isOpenedTool(tool) == tool.containerId # 0

getAllTools == toolbox.file

getOpenedTools == SelectSeq(getAllTools, isOpenedTool)

\* tools.find((t) => t.name === name), as an index; 0: none.
FindTool(tools, name) ==
  IF \E k \in 1..Len(tools) : tools[k].name = name
  THEN CHOOSE k \in 1..Len(tools) :
         /\ tools[k].name = name
         /\ \A j \in 1..(k - 1) : tools[j].name # name
  ELSE 0

\* waitForNewWindow has an empty body: it resolves to undefined.
waitForNewWindow == 0

\* ChromeApp.openApp of tools/chrome/chrome.ts called with a ChromeAppState:
\* getTabs over HTTP (never answered without a companion that pushes), the
\* launch, getTabs again, the difference of the two key lists.
ToolsChromeOpenApp(m, urls, e) ==
  IF ~m.ext THEN [m EXCEPT !.status = "hang"]
  ELSE LET oldTabs == m.browser
           m1 == SpawnChromium(m, 0, urls, e)
           newTabs == m1.browser
           c == CorrelateBrowser(Keys(oldTabs), Keys(newTabs))
       IN IF c.error # "" THEN Throw(m1, c.error)
          ELSE [m1 EXCEPT !.ret = [chromeWindowId |-> c.id]]

\* launchTool(tool): status "reused" when it returns the stored opened tool,
\* "launched" when it returns the tool it has just opened.
launchTool(tool, e) ==
  LET m == Start(store)
      openedTools == getOpenedTools
      k == FindTool(openedTools, tool.name)
  IN IF k # 0
     THEN [m EXCEPT !.status = "reused",
                    !.ret = [containerId |-> openedTools[k].containerId,
                             chromeWindowId |-> 0]]
     ELSE IF tool.type = "browser"
          THEN LET r == ToolsChromeOpenApp(Reserve(m, 0, e), tool.urls, e)
               IN IF r.status # "run" THEN r
                  ELSE [TreeGrows(r, e) EXCEPT
                          !.status = "launched",
                          !.ret = [containerId |-> waitForNewWindow,
                                   chromeWindowId |-> r.ret.chromeWindowId]]
          ELSE Throw(m, "Tool not found")

\* The tools a caller asks for: those of the file, as configured.
ToolArgs ==
  {Tool(getAllTools[k].name, getAllTools[k].type, getAllTools[k].urls, 0) :
     k \in 1..Len(getAllTools)}

LaunchTool ==
  /\ toolbox.calls < MaxCalls
  /\ \E tool \in ToolArgs, e \in Outcomes :
       LET r == launchTool(tool, e)
           done == r.status \in {"reused", "launched"}
       IN /\ r.nextId <= MaxWin + 1
          /\ toolbox' =
               [toolbox EXCEPT
                  !.calls = @ + 1,
                  !.last = [name |-> tool.name, status |-> r.status,
                            error |-> r.error,
                            containerId |-> IF done THEN r.ret.containerId ELSE 0,
                            chromeWindowId |->
                              IF done THEN r.ret.chromeWindowId ELSE 0]]
          /\ tree' = r.tree
          /\ browser' = r.browser
          /\ nextId' = r.nextId
  /\ quiet' = FALSE
  /\ UNCHANGED <<version, store, extConnected, last, prevFocus>>
  /\ UNCHANGED <<serverVars, probe, loop, companion, call>>

\* The tools file: a browser tool, stored as opened in container 1 or not,
\* and in some a terminal tool.
ToolFiles ==
  {<<Tool("web", "browser", <<"u1">>, c)>> : c \in 0..1}
  \cup {<<Tool("web", "browser", <<"u1">>, c), Tool("term", "terminal", <<>>, d)>> :
          c \in 0..1, d \in {0, 2}}

InitTools ==
  /\ version = "part_005"
  /\ store = <<>>
  /\ tree = <<Node(1, "Chromium"), Node(2, "XTerm")>>
  /\ browser = <<BrowserWindow(1, <<"u2">>)>>
  /\ extConnected = TRUE
  /\ nextId = 3
  /\ last = [op |-> "none", arg |-> "", status |-> "none", error |-> "",
             trace |-> <<>>, env |-> <<>>, after |-> ""]
  /\ prevFocus = ""
  /\ quiet = TRUE
  /\ ServerIdle
  /\ ProbeIdle
  /\ LoopIdle
  /\ CompanionIdle
  /\ CallIdle
  /\ \E file \in ToolFiles :
       toolbox = [file |-> file, calls |-> 0, last |-> NoResult]

NextTools == LaunchTool \/ EnvCloseWindow \/ EnvExtension

SpecTools == InitTools /\ [][NextTools]_vars

\* ------------------------------------------------- the tab-sync server
\* startServer of tools/chrome/chrome.ts: one variable `tabs` shared by the
\* handlers of POST /tabs and GET /get-tabs.  A handler runs until its next
\* await, so each action below is the stretch of a handler between two awaits.
\* A mapping is named by the stamp at which the server received its push.
MaxClock == 7
MaxRequests == 2

\* The bench is left alone while the server is looked at on its own.
BenchIdle ==
  /\ version = "part_005"
  /\ store = <<>>
  /\ tree = <<>>
  /\ browser = <<>>
  /\ extConnected = TRUE
  /\ nextId = 1
  /\ last = [op |-> "none", arg |-> "", status |-> "none", error |-> "",
             trace |-> <<>>, env |-> <<>>, after |-> ""]
  /\ prevFocus = ""
  /\ quiet = TRUE

\* POST /tabs up to `await req.text()`: answers OK at once when a mapping is
\* stored, else goes on to read the body.  The companion awaits the answer
\* before it posts again, so at most one push is being read.
PostTabs ==
  /\ clock < MaxClock
  /\ inflight = {}
  /\ clock' = clock + 1
  /\ inflight' = IF tabs # NoTabs THEN inflight
                 ELSE inflight \cup {[received |-> clock + 1]}
  /\ UNCHANGED <<tabs, requests, wsCall, benchVars, probe, loop, toolbox, companion, call>>

\* POST /tabs after `await req.text()`: tabs = receivedTabs.
StoreTabs ==
  \E p \in inflight :
    /\ clock' = clock + 1
    /\ tabs' = [received |-> p.received, stored |-> clock + 1]
    /\ inflight' = inflight \ {p}
    /\ UNCHANGED <<requests, wsCall, benchVars, probe, loop, toolbox, companion, call>>

\* GET /get-tabs up to its first sleep: tabs = null.
GetTabsArrive ==
  /\ clock < MaxClock
  /\ Len(requests) < MaxRequests
  /\ clock' = clock + 1
  /\ tabs' = NoTabs
  /\ requests' = Append(requests, [arrived |-> clock + 1, state |-> "waiting",
                                   reply |-> NoTabs])
  /\ UNCHANGED <<inflight, wsCall, benchVars, probe, loop, toolbox, companion, call>>

\* GET /get-tabs: the 200 ms timer of a sleep fires.
GetTabsWake ==
  \E r \in 1..Len(requests) :
    /\ requests[r].state = "waiting"
    /\ requests' = [requests EXCEPT ![r].state = "awake"]
    /\ UNCHANGED <<tabs, inflight, clock, wsCall, benchVars, probe, loop, toolbox, companion, call>>

\* GET /get-tabs: `while (!tabs)` finds no mapping and sleeps again.
GetTabsSleep ==
  \E r \in 1..Len(requests) :
    /\ requests[r].state = "awake"
    /\ tabs = NoTabs
    /\ requests' = [requests EXCEPT ![r].state = "waiting"]
    /\ UNCHANGED <<tabs, inflight, clock, wsCall, benchVars, probe, loop, toolbox, companion, call>>

\* GET /get-tabs: `while (!tabs)` finds a mapping; the loop ends and the
\* mapping is the response.
GetTabsReply ==
  \E r \in 1..Len(requests) :
    /\ requests[r].state = "awake"
    /\ tabs # NoTabs
    /\ requests' = [requests EXCEPT ![r] = [@ EXCEPT !.state = "done",
                                                     !.reply = tabs]]
    /\ UNCHANGED <<tabs, inflight, clock, wsCall, benchVars, probe, loop, toolbox, companion, call>>

InitTabs == BenchIdle /\ ServerIdle /\ ProbeIdle /\ LoopIdle /\ ToolsIdle /\ CompanionIdle /\ CallIdle

NextTabs ==
  \/ PostTabs
  \/ StoreTabs
  \/ GetTabsArrive
  \/ GetTabsWake
  \/ GetTabsSleep
  \/ GetTabsReply

\* The tab-sync server under any interleaving of its handlers.
SpecTabs == InitTabs /\ [][NextTabs]_vars

\* ------------------------------------------- getTabs over the WebSocket
\* getTabs of apps/chrome/chrome.ts, one call: it waits for the extension to
\* connect, the interval looking every second and the timer ending the wait
\* after ten; without a connection it returns {}; with one it sends the
\* request and awaits the answer.
ConnectTimeoutTicks == 10

\* The websocket's open handler: extentionWs = _ws (never unset again).  The
\* extension connects when it has no live socket.
WsOpen ==
  /\ ~wsCall.alive
  /\ wsCall' = [wsCall EXCEPT !.ext = TRUE, !.alive = TRUE]
  /\ UNCHANGED <<tabs, inflight, requests, clock, benchVars, probe, loop, toolbox, companion, call>>

\* getTabs is called: lines 55 to 77 up to the first await.
WsGetTabs ==
  /\ wsCall.state = "idle"
  /\ wsCall' = [wsCall EXCEPT !.state = IF wsCall.ext THEN "sent" ELSE "waiting",
                              !.delivered = wsCall.ext /\ wsCall.alive]
  /\ UNCHANGED <<tabs, inflight, requests, clock, benchVars, probe, loop, toolbox, companion, call>>

\* A wait without the ten-second timer: only the interval ends it.
WsTickNoTimeout ==
  /\ wsCall.state = "waiting"
  /\ wsCall' =
       IF wsCall.ext THEN [wsCall EXCEPT !.ticks = @ + 1, !.state = "sent",
                                         !.delivered = wsCall.alive]
       ELSE [wsCall EXCEPT !.ticks = @ + 1]
  /\ UNCHANGED <<tabs, inflight, requests, clock, benchVars, probe, loop, toolbox, companion, call>>

\* One second of the wait: the interval resolves it when the extension has
\* connected, the timer when the tenth second is over; then lines 73 to 77.
WsTick ==
  /\ wsCall.state = "waiting"
  /\ LET t == wsCall.ticks + 1
     IN wsCall' =
          IF wsCall.ext THEN [wsCall EXCEPT !.ticks = t, !.state = "sent",
                                            !.delivered = wsCall.alive]
          ELSE IF t < ConnectTimeoutTicks THEN [wsCall EXCEPT !.ticks = t]
          ELSE [wsCall EXCEPT !.ticks = t, !.state = "done", !.reply = "empty"]
  /\ UNCHANGED <<tabs, inflight, requests, clock, benchVars, probe, loop, toolbox, companion, call>>

\* The extension answers: the message handler calls onTabs, which resolves.
WsMessage ==
  /\ wsCall.state = "sent"
  /\ wsCall.delivered
  /\ wsCall' = [wsCall EXCEPT !.state = "done", !.reply = "tabs"]
  /\ UNCHANGED <<tabs, inflight, requests, clock, benchVars, probe, loop, toolbox, companion, call>>

\* The websocket's close handler: it logs "Extension disconnected" and
\* leaves extentionWs as it is.  A request sent on the socket and not yet
\* answered gets no answer any more.
WsClose ==
  /\ wsCall.alive
  /\ wsCall' = [wsCall EXCEPT !.alive = FALSE, !.delivered = FALSE]
  /\ UNCHANGED <<tabs, inflight, requests, clock, benchVars, probe, loop, toolbox, companion, call>>

NextWs == WsOpen \/ WsGetTabs \/ WsTick \/ WsMessage \/ WsClose

\* Tab-snapshot requests of both kinds.  What the runtime guarantees is
\* fair: timers fire, a request body being read arrives.  What the companion
\* does (a push, a connection, an answer) is not.
FairSpecSnapshots ==
  /\ InitTabs
  /\ [][NextTabs \/ NextWs]_vars
  /\ WF_vars(GetTabsWake)
  /\ WF_vars(GetTabsSleep)
  /\ WF_vars(GetTabsReply)
  /\ WF_vars(StoreTabs)
  /\ WF_vars(WsGetTabs)
  /\ WF_vars(WsTick)

\* ------------------------------------------ the companion's push loop
\* connectOnLoop of the companion extension: `while (true) { await
\* sendData(); await wait(1000); }`.  companion.pc is where the loop stands:
\* "collect" before `await getTabs()`, "send" before the fetch, "posting"
\* while the server reads the body, "wait" during the pause.  A push is
\* stamped with the number of /get-tabs requests that had arrived, plus one.

\* A server that answers every push at once and reads none.
CompanionSendUnread ==
  /\ companion.pc = "send"
  /\ companion' = [pc |-> "wait", last |-> "ok"]
  /\ UNCHANGED <<serverVars, benchVars, probe, loop, toolbox, call>>

\* A loop that a failed fetch would end.
CompanionSendFailsStops ==
  /\ companion.pc = "send"
  /\ companion' = [pc |-> "off", last |-> "failed"]
  /\ UNCHANGED <<serverVars, benchVars, probe, loop, toolbox, call>>

\* sendData, line 4: the mapping of all windows is collected anew.
CompanionCollect ==
  /\ companion.pc = "collect"
  /\ companion' = [companion EXCEPT !.pc = "send"]
  /\ UNCHANGED <<serverVars, benchVars, probe, loop, toolbox, call>>

\* sendData, lines 7 to 11, the POST reaches the server: /tabs answers OK at
\* once when a mapping is stored, else it goes on to read the body.
CompanionSend ==
  /\ companion.pc = "send"
  /\ IF tabs # NoTabs
       THEN /\ companion' = [pc |-> "wait", last |-> "ok"]
            /\ UNCHANGED inflight
       ELSE /\ companion' = [companion EXCEPT !.pc = "posting"]
            /\ inflight' = inflight \cup {[received |-> clock + 1]}
  /\ UNCHANGED <<tabs, requests, clock, wsCall, benchVars, probe, loop, toolbox, call>>

\* sendData, lines 12 to 14: the fetch throws, "Failed to connect" is logged
\* and sendData returns.
CompanionSendFails ==
  /\ companion.pc = "send"
  /\ companion' = [pc |-> "wait", last |-> "failed"]
  /\ UNCHANGED <<serverVars, benchVars, probe, loop, toolbox, call>>

\* The body has been read: /tabs stores it and answers OK; the fetch of
\* sendData resolves.
CompanionStored ==
  /\ companion.pc = "posting"
  /\ \E p \in inflight :
       /\ tabs' = [received |-> p.received, stored |-> clock + 1]
       /\ inflight' = inflight \ {p}
  /\ companion' = [pc |-> "wait", last |-> "ok"]
  /\ UNCHANGED <<requests, clock, wsCall, benchVars, probe, loop, toolbox, call>>

\* connectOnLoop, line 22: the pause is over, the loop goes round.
CompanionWait ==
  /\ companion.pc = "wait"
  /\ companion' = [companion EXCEPT !.pc = "collect"]
  /\ UNCHANGED <<serverVars, benchVars, probe, loop, toolbox, call>>

\* connectOnLoop() at line 47: the loop is started when the extension loads.
InitCompanion ==
  /\ BenchIdle /\ ServerIdle /\ ProbeIdle /\ LoopIdle /\ ToolsIdle /\ CallIdle
  /\ companion = [pc |-> "collect", last |-> "none"]

NextCompanion ==
  \/ CompanionCollect
  \/ CompanionSend
  \/ CompanionSendFails
  \/ CompanionStored
  \/ CompanionWait
  \/ GetTabsArrive
  \/ GetTabsWake
  \/ GetTabsSleep
  \/ GetTabsReply

\* The tab-sync server with the companion's loop as its only poster.  Timers
\* fire and awaited promises settle; whether a fetch connects is not up to
\* the runtime, so only that it ends one way or the other is fair.
FairSpecCompanion ==
  /\ InitCompanion
  /\ [][NextCompanion]_vars
  /\ WF_vars(CompanionCollect)
  /\ WF_vars(CompanionSend \/ CompanionSendFails)
  /\ WF_vars(CompanionStored)
  /\ WF_vars(CompanionWait)
  /\ WF_vars(GetTabsWake)
  /\ WF_vars(GetTabsSleep)
  /\ WF_vars(GetTabsReply)

\* ------------------------------------------------- discovery on its own
\* The correlation step applied to two snapshots, at either level.
MaxProbeId == 3

RECURSIVE IdLists(_)
IdLists(n) ==
  IF n = 0 THEN {<<>>}
  ELSE LET shorter == IdLists(n - 1)
       IN shorter \cup {Append(q, x) : q \in shorter, x \in 1..MaxProbeId}

\* Snapshots: lists of distinct ids (container ids of a tree, keys of a
\* mapping), in any order.
Snapshots ==
  {q \in IdLists(MaxProbeId) :
     \A j, k \in 1..Len(q) : j # k => q[j] # q[k]}

\* What a query made some time after the snapshot `after` can answer: the
\* windows of `after` and those that have appeared since.
Later(after) ==
  {after \o q : q \in {x \in Snapshots : \A k \in 1..Len(x) : ~Includes(after, x[k])}}

\* openApp queries the tree once after the launch (probe.after); what the tree
\* holds later (probe.late) is not asked for.
ProbeI3 ==
  /\ probe.level = ""
  /\ LET c == CorrelateI3(probe.before, probe.after)
     IN probe' = [probe EXCEPT !.level = "i3", !.error = c.error, !.id = c.id]
  /\ UNCHANGED <<benchVars, serverVars, loop, toolbox, companion, call>>

ProbeBrowser ==
  /\ probe.level = ""
  /\ LET c == CorrelateBrowser(probe.before, probe.after)
     IN probe' = [probe EXCEPT !.level = "browser", !.error = c.error,
                               !.id = c.id]
  /\ UNCHANGED <<benchVars, serverVars, loop, toolbox, companion, call>>

InitDiscover ==
  /\ BenchIdle
  /\ ServerIdle
  /\ LoopIdle
  /\ ToolsIdle
  /\ CompanionIdle
  /\ CallIdle
  /\ \E before \in Snapshots, after \in Snapshots :
       \E late \in Later(after) :
         probe = [level |-> "", before |-> before, after |-> after,
                  late |-> late, error |-> "", id |-> 0]

NextDiscover == ProbeI3 \/ ProbeBrowser

SpecDiscover == InitDiscover /\ [][NextDiscover]_vars

\* ------------------------------------------------- the continuous sync
\* syncLoop (service.ts) and daemon (part_005): while (true) { await sync();
\* await sleep(1000) }.  sync calls saveToFs without awaiting it, so the write
\* of the state file ends at some later time.
MaxIter == 3

\* `await sync()`: iteration loop.iter runs sync to its return.  A sync that
\* raises ends the loop; one that is never answered keeps it waiting.
LoopSync ==
  /\ loop.pc = "sync"
  /\ LET r == sync
     IN loop' =
          IF r.status = "ok"
          THEN [loop EXCEPT !.pc = "pause",
                            !.writing = @ \cup {[iter |-> loop.iter, ws |-> r.ws]}]
          ELSE IF r.status = "throw" THEN [loop EXCEPT !.pc = "dead"]
          ELSE [loop EXCEPT !.pc = "hang"]
  /\ UNCHANGED <<benchVars, serverVars, probe, toolbox, companion, call>>

\* Bun.write of a saveToFs that was not awaited comes to its end.
LoopWrite ==
  \E w \in loop.writing :
    /\ store' = w.ws
    /\ loop' = [loop EXCEPT !.writing = @ \ {w}]
    /\ UNCHANGED <<version, tree, browser, extConnected, nextId, last,
                   prevFocus, quiet, serverVars, probe, toolbox, companion, call>>

\* The pause of 1000 ms is over: the next iteration starts.
LoopPause ==
  /\ loop.pc = "pause"
  /\ loop.iter < MaxIter
  /\ loop' = [loop EXCEPT !.pc = "sync", !.iter = @ + 1]
  /\ UNCHANGED <<benchVars, serverVars, probe, toolbox, companion, call>>

InitLoop ==
  /\ BenchInit
  /\ ServerIdle
  /\ ProbeIdle
  /\ ToolsIdle
  /\ CompanionIdle
  /\ CallIdle
  /\ loop = [pc |-> "sync", iter |-> 1, writing |-> {}]

NextLoop == LoopSync \/ LoopWrite \/ LoopPause \/ EnvExtension

\* The sync loop of the daemon, the companion coming and going.
SpecLoop == InitLoop /\ [][NextLoop]_vars

\* One iteration of the loop of the daemon while a client runs the open
\* command: two processes on one state file, each reading it at its start and
\* writing it at its end.
NextOverlap == LoopSync \/ LoopWrite \/ SelectWorkspace \/ EnvExtension

SpecOverlap == InitLoop /\ [][NextOverlap]_vars

\* ------------------------------------------ the tree search on its own
\* findNodeIdsByClass of the i3 adapter on trees as i3 reports them: a node
\* has an id, window_properties with a class or none (NoClass), its tiled
\* children (nodes) and its floating children (floating_nodes).
MaxNodes == 4

NoClass == ""

Classes == {"Chromium", "XTerm"}

TreeNode(id, class, nodes, floating_nodes) ==
  [id |-> id, class |-> class, nodes |-> nodes,
   floating_nodes |-> floating_nodes]

\* `node.nodes.forEach(traverse)` with the floating children first.
RECURSIVE traverseFloatingFirst(_, _, _)
RECURSIVE forEachFloatingFirst(_, _, _)
traverseFloatingFirst(node, className, result) ==
  LET pushed == IF node.class # NoClass /\ node.class = className
                  THEN Append(result, node.id) ELSE result
      floating == forEachFloatingFirst(node.floating_nodes, className, pushed)
  IN forEachFloatingFirst(node.nodes, className, floating)

forEachFloatingFirst(list, className, result) ==
  IF list = <<>> THEN result
  ELSE forEachFloatingFirst(Tail(list), className,
                            traverseFloatingFirst(Head(list), className, result))

findNodeIdsInTreeFloatingFirst(treeNode, className) ==
  traverseFloatingFirst(treeNode, className, <<>>)

\* traverse: pushes the node's id when its class is the one looked for, then
\* goes through nodes, then through floating_nodes.  `result` is the array
\* the calls share.
RECURSIVE traverse(_, _, _)
RECURSIVE forEach(_, _, _)
traverse(node, className, result) ==
  LET pushed == IF node.class # NoClass /\ node.class = className
                  THEN Append(result, node.id) ELSE result
      tiled == forEach(node.nodes, className, pushed)
  IN forEach(node.floating_nodes, className, tiled)

\* list.forEach(traverse): the elements in order.
forEach(list, className, result) ==
  IF list = <<>> THEN result
  ELSE forEach(Tail(list), className, traverse(Head(list), className, result))

\* findNodeIdsByClass on a tree: result = [], traverse(treeNode), result.
findNodeIdsInTree(treeNode, className) == traverse(treeNode, className, <<>>)

\* Shapes of trees with n nodes and of lists of trees with n nodes together.
RECURSIVE ShapesOfSize(_)
RECURSIVE ForestsOfSize(_)
ShapesOfSize(n) ==
  UNION {{[nodes |-> a, floating_nodes |-> b] :
            a \in ForestsOfSize(k), b \in ForestsOfSize(n - 1 - k)} :
         k \in 0..(n - 1)}

ForestsOfSize(n) ==
  IF n = 0 THEN {<<>>}
  ELSE UNION {{<<t>> \o f : t \in ShapesOfSize(k), f \in ForestsOfSize(n - k)} :
              k \in 1..n}

RECURSIVE Size(_)
RECURSIVE SizeAll(_)
Size(shape) == 1 + SizeAll(shape.nodes) + SizeAll(shape.floating_nodes)

SizeAll(list) ==
  IF list = <<>> THEN 0 ELSE Size(Head(list)) + SizeAll(Tail(list))

\* A shape with ids and classes put on its nodes: the k-th label onward.
RECURSIVE Labelled(_, _, _, _)
RECURSIVE LabelledAll(_, _, _, _)
Labelled(shape, ids, classes, k) ==
  TreeNode(ids[k], classes[k],
           LabelledAll(shape.nodes, ids, classes, k + 1),
           LabelledAll(shape.floating_nodes, ids, classes,
                       k + 1 + SizeAll(shape.nodes)))

LabelledAll(list, ids, classes, k) ==
  IF list = <<>> THEN <<>>
  ELSE <<Labelled(Head(list), ids, classes, k)>>
         \o LabelledAll(Tail(list), ids, classes, k + Size(Head(list)))

\* Container ids are distinct and follow no order of the tree: here they
\* rise along the labelling, fall along it, or start in its middle.
IdOrders(n) ==
  {[k \in 1..n |-> k], [k \in 1..n |-> n + 1 - k], [k \in 1..n |-> (k % n) + 1]}

\* The trees of at most MaxNodes nodes; a node is a window of some class or
\* no window.
Trees ==
  UNION {{Labelled(shape, ids, classes, 1) :
            shape \in ShapesOfSize(n),
            ids \in IdOrders(n),
            classes \in [1..n -> Classes \cup {NoClass}]} :
         n \in 1..MaxNodes}

\* findNodeIdsByClass(treeNode, className) is called and returns.
FindNodeIdsByClass ==
  /\ call.op = "findNodeIdsByClass"
  /\ ~call.done
  /\ call' = [call EXCEPT !.result = findNodeIdsInTree(call.arg[1], call.arg[2]),
                          !.done = TRUE]
  /\ UNCHANGED <<benchVars, serverVars, probe, loop, toolbox, companion>>

InitTraverse ==
  /\ BenchIdle /\ ServerIdle /\ ProbeIdle /\ LoopIdle /\ ToolsIdle /\ CompanionIdle
  /\ \E t \in Trees, c \in Classes :
       call = [op |-> "findNodeIdsByClass", arg |-> <<t, c>>,
               result |-> <<>>, done |-> FALSE]

NextTraverse == FindNodeIdsByClass

\* findNodeIdsByClass applied to every tree and class of the bounds.
SpecTraverse == InitTraverse /\ [][NextTraverse]_vars

\* ------------------------------------------------- the bench store
\* benches.json as getBenches and saveBench of cli.ts read and write it.  A
\* JSON value carries its type; a key an object does not have is Absent.
\* A bench object has the keys of the schema (name, bays), isActive of the
\* Bench type, which the schema does not name, and a key from an older
\* version (legacy); a bay object has name, tools and legacy.
Absent == [type |-> "absent", str |-> "", items |-> <<>>]

Str(s) == [type |-> "string", str |-> s, items |-> <<>>]

Num(s) == [type |-> "number", str |-> s, items |-> <<>>]

Bool(s) == [type |-> "boolean", str |-> s, items |-> <<>>]

Arr(list) == [type |-> "array", str |-> "", items |-> list]

BayObject(name, tools, legacy) ==
  [name |-> name, tools |-> tools, legacy |-> legacy]

BenchObject(name, bays, isActive, legacy) ==
  [name |-> name, bays |-> bays, isActive |-> isActive, legacy |-> legacy]

\* What a failed read leaves: nothing.
NoBenches == <<>>

\* z.object of the bay: name a string, tools an array; a key the schema does
\* not name is dropped from the result.
validateBay(dict) ==
  IF dict.name.type = "string" /\ dict.tools.type = "array"
  THEN [ok |-> TRUE, value |-> BayObject(dict.name, dict.tools, Absent)]
  ELSE [ok |-> FALSE, value |-> dict]

\* A schema built with .strict(): a key it does not name is an error.
validateBenchStrict(dict) ==
  LET bays == [k \in 1..Len(dict.bays.items) |-> validateBay(dict.bays.items[k])]
  IN IF /\ dict.name.type = "string"
        /\ dict.bays.type = "array"
        /\ \A k \in 1..Len(bays) : bays[k].ok
        /\ dict.isActive = Absent
        /\ dict.legacy = Absent
     THEN [ok |-> TRUE,
           value |-> BenchObject(dict.name,
                                 Arr([k \in 1..Len(bays) |-> bays[k].value]),
                                 Absent, Absent)]
     ELSE [ok |-> FALSE, value |-> dict]

\* validateBench: z.object({name, bays}).parse(dict).  parse throws when name
\* is no string, bays no array or a bay does not parse; else it returns the
\* keys of the schema and drops the others.
validateBench(dict) ==
  LET bays == [k \in 1..Len(dict.bays.items) |-> validateBay(dict.bays.items[k])]
  IN IF /\ dict.name.type = "string"
        /\ dict.bays.type = "array"
        /\ \A k \in 1..Len(bays) : bays[k].ok
     THEN [ok |-> TRUE,
           value |-> BenchObject(dict.name,
                                 Arr([k \in 1..Len(bays) |-> bays[k].value]),
                                 Absent, Absent)]
     ELSE [ok |-> FALSE, value |-> dict]

\* getBenches: the file parsed, `.map(validateBench)` called on it.  On a
\* file that holds one object there is no map to call (TypeError); a record
\* that does not parse throws (ZodError).
getBenches(file) ==
  IF file.kind # "array"
  THEN [ok |-> FALSE, error |-> "TypeError", value |-> NoBenches]
  ELSE LET read == [k \in 1..Len(file.items) |-> validateBench(file.items[k])]
       IN IF \E k \in 1..Len(read) : ~read[k].ok
          THEN [ok |-> FALSE, error |-> "ZodError", value |-> NoBenches]
          ELSE [ok |-> TRUE, error |-> "",
                value |-> [k \in 1..Len(read) |-> read[k].value]]

\* saveBench: Bun.write(allBenchesFile, JSON.stringify(bench)).
saveBench(file, bench) == [kind |-> "object", items |-> <<bench>>]

\* Nothing read yet.
NotRead == [ok |-> FALSE, error |-> "", value |-> NoBenches]

\* Bay and bench objects a file can hold, well-formed or not.
BayObjects ==
  {BayObject(name, tools, legacy) :
     name \in {Str("1"), Absent},
     tools \in {Arr(<<>>), Absent},
     legacy \in {Absent, Str("x")}}

BenchObjects ==
  {BenchObject(name, bays, isActive, legacy) :
     name \in {Str("a"), Str("b"), Num("7"), Absent},
     bays \in {Absent, Str("x"), Arr(<<>>)} \cup {Arr(<<bay>>) : bay \in BayObjects},
     isActive \in {Absent, Bool("true")},
     legacy \in {Absent, Str("x")}}

\* Benches a program holds: what getBenches has returned, isActive set or not.
Benches ==
  {BenchObject(Str(name), Arr(bays), isActive, Absent) :
     name \in {"a", "b"},
     bays \in {<<>>, <<BayObject(Str("1"), Arr(<<>>), Absent)>>},
     isActive \in {Absent, Bool("true")}}

\* benches.json: an array of at most two objects, the second one a bench
\* named b.
BenchFiles ==
  {[kind |-> "array", items |-> <<>>]}
    \cup {[kind |-> "array", items |-> <<r>>] : r \in BenchObjects}
    \cup {[kind |-> "array", items |-> <<r, s>>] :
            r \in BenchObjects,
            s \in {BenchObject(Str("b"), Arr(<<>>), Absent, legacy) :
                     legacy \in {Absent, Str("x")}}}

\* saveBench(bench), as syncBench and addToolToBench call it.
SaveBench ==
  /\ call.op = "start"
  /\ call' = [call EXCEPT !.op = "saved",
                          !.result.file = saveBench(call.result.file, call.arg[2])]
  /\ UNCHANGED <<benchVars, serverVars, probe, loop, toolbox, companion>>

\* getBenches(), on the file as it is.
GetBenches ==
  /\ call.op \in {"start", "saved"}
  /\ ~call.done
  /\ call' = [call EXCEPT !.result.read = getBenches(call.result.file),
                          !.done = TRUE]
  /\ UNCHANGED <<benchVars, serverVars, probe, loop, toolbox, companion>>

InitBenches ==
  /\ BenchIdle /\ ServerIdle /\ ProbeIdle /\ LoopIdle /\ ToolsIdle /\ CompanionIdle
  /\ \E file \in BenchFiles, bench \in Benches :
       call = [op |-> "start", arg |-> <<file, bench>>,
               result |-> [file |-> file, read |-> NotRead], done |-> FALSE]

NextBenches == SaveBench \/ GetBenches

\* The bench store read, or written and then read.
SpecBenches == InitBenches /\ [][NextBenches]_vars

\* ------------------------------------------------ the tmux app on its own
\* TmuxApp.openApp of apps/tmux/tmux-app.ts.  A directory is the sequence
\* of its characters; the name 'tmux-session' is kept as one token.
MaxPath == 4

PathChars == {"/", "a", "b"}

RECURSIVE PathsUpTo(_)
PathsUpTo(n) ==
  IF n = 0 THEN {<<>>}
  ELSE LET shorter == PathsUpTo(n - 1)
       IN shorter \cup {Append(q, c) : q \in shorter, c \in PathChars}

Directories == PathsUpTo(MaxPath)

TmuxSession == <<"tmux-session">>

\* directory.split('/'): the pieces between the slashes, empty ones too; one
\* piece more than there are slashes.
RECURSIVE Split(_)
Split(chars) ==
  IF chars = <<>> THEN <<(<<>>)>>
  ELSE LET rest == Split(Tail(chars))
       IN IF Head(chars) = "/" THEN <<(<<>>)>> \o rest
          ELSE <<(<<Head(chars)>> \o Head(rest))>> \o Tail(rest)

\* A name taken from the front: split('/').shift().
getSessionNameFirst(directory) ==
  LET first == Head(Split(directory))
  IN IF first = <<>> THEN TmuxSession ELSE first

\* getSessionName: directory.split('/').pop() || 'tmux-session'.
getSessionName(directory) ==
  LET parts == Split(directory)
      last_ == parts[Len(parts)]
  IN IF last_ = <<>> THEN TmuxSession ELSE last_

\* openApp: has-session answers sessionExists, the terminal command ends
\* with result.success; the command built, and whether the call threw.
tmuxOpenApp(directory, sessionExists, success) ==
  LET sessionName == getSessionName(directory)
      tmuxCommand ==
        IF sessionExists
          THEN [verb |-> "attach-session", session |-> sessionName, cd |-> <<>>,
                inDirectory |-> FALSE]
          ELSE [verb |-> "new-session", session |-> sessionName, cd |-> directory,
                inDirectory |-> TRUE]
  IN [checked |-> sessionName, exists |-> sessionExists, success |-> success,
      command |-> tmuxCommand,
      status |-> IF success THEN "ok" ELSE "throw"]

\* TmuxApp.openApp(app) is called and ends.
TmuxOpenApp ==
  /\ call.op = "TmuxApp.openApp"
  /\ ~call.done
  /\ \E sessionExists \in BOOLEAN, success \in BOOLEAN :
       call' = [call EXCEPT !.result = tmuxOpenApp(call.arg[1], sessionExists, success),
                            !.done = TRUE]
  /\ UNCHANGED <<benchVars, serverVars, probe, loop, toolbox, companion>>

InitTmux ==
  /\ BenchIdle /\ ServerIdle /\ ProbeIdle /\ LoopIdle /\ ToolsIdle /\ CompanionIdle
  /\ \E directory \in Directories :
       call = [op |-> "TmuxApp.openApp", arg |-> <<directory>>,
               result |-> <<>>, done |-> FALSE]

NextTmux == TmuxOpenApp

\* TmuxApp.openApp on every directory of the bounds.
SpecTmux == InitTmux /\ [][NextTmux]_vars

\* ------------------------------------------------------------ properties
Opened(workspaces) == {k \in 1..Len(workspaces) : workspaces[k].isOpened}

NameInStore(name) == \E k \in 1..Len(store) : store[k].name = name

\* The place in `workspaces` of the workspace called `name`.
Named(workspaces, name) ==
  CHOOSE k \in 1..Len(workspaces) : workspaces[k].name = name

\* The events of one kind in the log of a command, and those of one app.
Events(trace, kind) == {trace[k] : k \in {j \in 1..Len(trace) : trace[j].k = kind}}

EventsOf(trace, kind, i) == {ev \in Events(trace, kind) : ev.app = i}

NoLaunch(trace) == Events(trace, "launch") = {}

TreeIds(nodes) == {nodes[k].id : k \in 1..Len(nodes)}

\* The step is a selectWorkspace run to its end.
SelectStep == quiet' /\ last'.op = "select"

\* C1: from a store with at most one workspace isOpened, after any commands
\* run to their end the persisted store has at most one workspace isOpened.
C1_AtMostOneOpened == Cardinality(Opened(store)) <= 1

\* Focus has moved from one workspace to another.
C1_Witness ==
  /\ last.op = "select"
  /\ last.status = "ok"
  /\ prevFocus \notin {"", last.arg}
  /\ Opened(store) = {Named(store, last.arg)}

\* C2: selectWorkspace(b) called again right after it succeeded, nothing
\* having changed in between, launches no process and leaves the persisted
\* store as the first call left it.
C2_Idempotent ==
  [][(SelectStep /\ quiet /\ Focused(last) # "" /\ last'.arg = Focused(last))
       => (NoLaunch(last'.trace) /\ store' = store)]_vars

C2_Witness ==
  /\ last.after = "again"
  /\ last.status = "ok"
  /\ NoLaunch(last.trace)
  /\ store[Named(store, last.arg)].apps # <<>>
  /\ Events(last.trace, "move") # {}

\* C3: when openApp finds an app's tracked id missing from the tree it
\* launches a replacement; on success the id moved and the id persisted are
\* the newly discovered one; the stale id is never moved and never stays
\* persisted.
C3_StaleIdHealed ==
  last.op = "select" =>
    \A st \in Events(last.trace, "stale") :
      /\ EventsOf(last.trace, "launch", st.app) # {}
      /\ \A mv \in EventsOf(last.trace, "move", st.app) : mv.id # st.id
      /\ last.status = "ok" =>
           LET app == store[Named(store, last.arg)].apps[st.app]
           IN /\ app.i3WindowId # st.id
              /\ \E f \in EventsOf(last.trace, "found", st.app) :
                   /\ app.i3WindowId = f.id
                   /\ \A mv \in EventsOf(last.trace, "move", st.app) :
                        mv.id = f.id

\* C4: with `fresh` the ids of the second snapshot that the first has not:
\* one fresh id is the id taken; several raise the too-many error and none
\* raise the no-new-window error, no id being taken in either case.
C4_DiscoveryCorrect ==
  probe.level # "" =>
    LET fresh == {probe.after[k] : k \in 1..Len(probe.after)}
                   \ {probe.before[k] : k \in 1..Len(probe.before)}
        tooMany == IF probe.level = "i3" THEN "Too many new i3 windows"
                   ELSE "Too many new windows"
        noNew == IF probe.level = "i3" THEN "No new i3 windows"
                 ELSE "No new window found"
    IN /\ Cardinality(fresh) = 1 => probe.error = "" /\ probe.id \in fresh
       /\ Cardinality(fresh) > 1 => probe.error = tooMany /\ probe.id = 0
       /\ Cardinality(fresh) = 0 => probe.error = noNew /\ probe.id = 0

C4_Witness ==
  /\ probe.level = "i3"
  /\ probe.before = <<1, 2>>
  /\ probe.after = <<1, 2, 3>>
  /\ probe.error = ""
  /\ probe.id = 3

\* C5: selectWorkspace(A), selectWorkspace(B), selectWorkspace(A), with the
\* tracked windows alive throughout: the third call launches nothing, moves
\* each app of A to its workspace under the id it had, and A ends persisted
\* as the focused workspace.
C5_RoundTrip ==
  [][(/\ SelectStep
      /\ prevFocus = last'.arg
      /\ Focused(last) \notin {"", last'.arg}
      /\ \A k \in 1..Len(store) : \A i \in 1..Len(store[k].apps) :
           isOpened(store[k].apps[i])
             => store[k].apps[i].i3WindowId \in TreeIds(tree)
      /\ \A f \in Events(last.trace, "found") : f.id \in TreeIds(tree))
       => LET a == Named(store, last'.arg)
          IN /\ last'.status = "ok"
             /\ NoLaunch(last'.trace)
             /\ Opened(store') = {a}
             /\ \A i \in 1..Len(store[a].apps) :
                  /\ store'[a].apps[i].i3WindowId = store[a].apps[i].i3WindowId
                  /\ \E mv \in EventsOf(last'.trace, "move", i) :
                       /\ mv.id = store[a].apps[i].i3WindowId
                       /\ mv.ws = store[a].apps[i].i3Workspace]_vars

\* C6: a workspace with one browser app that has urls and no tracked id,
\* every launch creating one new browser window that the companion reports:
\* selectWorkspace launches once with those urls, discovers one id, moves it
\* to the app's workspace and ends with the id and the focus persisted.
C6_SingleBrowserApp ==
  [][(/\ SelectStep
      /\ version = "service"
      /\ NameInStore(last'.arg)
      /\ LET apps == store[Named(store, last'.arg)].apps
         IN /\ Len(apps) = 1
            /\ apps[1].name = "chrome"
            /\ ~isOpened(apps[1])
            /\ apps[1].data.urls # <<>>
      /\ extConnected
      /\ \A k \in 1..Len(last'.env) : last'.env[k].nb = 1 /\ last'.env[k].ni = 1)
       => LET w == Named(store, last'.arg)
              app == store[w].apps[1]
          IN /\ last'.status = "ok"
             /\ Cardinality(Events(last'.trace, "launch")) = 1
             /\ \A ev \in Events(last'.trace, "launch") : ev.urls = app.data.urls
             /\ Cardinality(Events(last'.trace, "found")) = 1
             /\ \A f \in Events(last'.trace, "found") :
                  /\ f.id \notin TreeIds(tree)
                  /\ f.id \in TreeIds(tree')
                  /\ \E mv \in EventsOf(last'.trace, "move", 1) :
                       mv.id = f.id /\ mv.ws = app.i3Workspace
                  /\ store'[w].apps[1].i3WindowId = f.id
             /\ Opened(store') = {w}]_vars

\* C7: selectWorkspace with a name that is not in the store sends no
\* window-manager command, launches nothing and leaves the persisted store
\* as it was.
C7_UnknownNameNoEffect ==
  [][(SelectStep /\ ~NameInStore(last'.arg))
       => (/\ last'.trace = <<>>
           /\ store' = store
           /\ tree' = tree
           /\ browser' = browser)]_vars

C7_Witness ==
  /\ last.op = "select"
  /\ ~NameInStore(last.arg)
  /\ last.status = "notfound"
  /\ store # <<>>

\* C8: selectWorkspace(b) for a name b of the store ends with b persisted as
\* the focused workspace or with an error raised; it never returns normally
\* with b unfocused.
C8_FocusedOrError ==
  (last.op = "select" /\ NameInStore(last.arg)
     /\ last.status \in {"ok", "return"})
    => store[Named(store, last.arg)].isOpened

\* C9: after selectWorkspace(b) aborted with a correlation error, a later
\* selectWorkspace(b), run while the windows the first call discovered are
\* alive, launches none of the apps the first call launched and discovered.
C9_ReusesEarlierWindows ==
  [][(/\ SelectStep
      /\ last.op = "select"
      /\ last'.arg = last.arg
      /\ last.status = "throw"
      /\ last.error \in {"Too many new windows", "No new window found",
                         "Too many new i3 windows", "No new i3 windows"}
      /\ \A f \in Events(last.trace, "found") : f.id \in TreeIds(tree))
       => \A f \in Events(last.trace, "found") :
            EventsOf(last.trace, "launch", f.app) # {}
              => EventsOf(last'.trace, "launch", f.app) = {}]_vars

\* C10: the mapping a /get-tabs request returns was pushed after the request
\* was received, and was stored after it.
C10_FreshReply ==
  \A r \in 1..Len(requests) :
    requests[r].state = "done"
      => /\ requests[r].reply.received > requests[r].arrived
         /\ requests[r].reply.stored > requests[r].arrived


\* C11: a tab-snapshot request always ends: the /get-tabs handler and
\* getTabs over the WebSocket each return, whatever the companion does.
C11_SnapshotRequestEnds ==
  /\ \A r \in 1..MaxRequests :
       (Len(requests) >= r /\ requests[r].state \in {"waiting", "awake"})
         ~> (Len(requests) >= r /\ requests[r].state = "done")
  /\ (wsCall.state \in {"waiting", "sent"}) ~> (wsCall.state = "done")

\* The step is a sync run to its end.
SyncStep == quiet' /\ last'.op = "sync"

\* The tab mapping a sync or a launch obtains: what the browser holds when
\* the companion is connected, else nothing.
HasEntry(cw) == extConnected /\ \E k \in 1..Len(browser) : browser[k].cw = cw

EntryUrls(cw) ==
  (CHOOSE b \in {browser[k] : k \in 1..Len(browser)} : b.cw = cw).urls

\* C12: a sync whose tab mapping has no entry for an app's browser window
\* leaves the saved urls of that app as they were.
C12_UnknownKeepsUrls ==
  [][(SyncStep /\ last'.status = "ok")
       => \A k \in Opened(store) : \A i \in 1..Len(store[k].apps) :
            (store[k].apps[i].name = "chrome"
               /\ ~HasEntry(store[k].apps[i].data.chromeWindowId))
              => store'[k].apps[i].data.urls = store[k].apps[i].data.urls]_vars

\* C13: with the companion not connected, launching a browser app during
\* selectWorkspace goes on without tab data: when every launch makes its one
\* window appear, the call does not fail.
C13_NoCompanionProceeds ==
  [][(/\ SelectStep
      /\ version = "service"
      /\ ~extConnected
      /\ \A k \in 1..Len(last'.env) : last'.env[k].nb = 1 /\ last'.env[k].ni = 1)
       => last'.status # "throw"]_vars

\* C14: after a sync with a focused workspace, each browser app of that
\* workspace has the urls the tab mapping gives for the browser window
\* recorded for the app (chromeWindowId).
C14_SyncTakesTabs ==
  [][(SyncStep /\ last'.status = "ok")
       => \A k \in Opened(store) : \A i \in 1..Len(store[k].apps) :
            (store[k].apps[i].name = "chrome"
               /\ HasEntry(store[k].apps[i].data.chromeWindowId))
              => store'[k].apps[i].data.urls
                   = EntryUrls(store[k].apps[i].data.chromeWindowId)]_vars

\* A sync has replaced the saved urls by those the window shows now.
C14_Witness ==
  /\ last.op = "sync"
  /\ last.status = "ok"
  /\ extConnected
  /\ \E k \in Opened(store) : \E i \in 1..Len(store[k].apps) :
       /\ store[k].apps[i].name = "chrome"
       /\ HasEntry(store[k].apps[i].data.chromeWindowId)
       /\ store[k].apps[i].data.urls = <<"u2">>

\* C15: sync changes nothing of the persisted store but data.urls of the
\* browser apps of the focused workspace.
C15_SyncFrame ==
  [][SyncStep
       => /\ Len(store') = Len(store)
          /\ \A k \in 1..Len(store) :
               /\ store'[k].name = store[k].name
               /\ store'[k].isOpened = store[k].isOpened
               /\ Len(store'[k].apps) = Len(store[k].apps)
               /\ \A i \in 1..Len(store[k].apps) :
                    IF k \in Opened(store) /\ store[k].apps[i].name = "chrome"
                    THEN [store'[k].apps[i] EXCEPT !.data.urls = <<>>]
                           = [store[k].apps[i] EXCEPT !.data.urls = <<>>]
                    ELSE store'[k].apps[i] = store[k].apps[i]]_vars

\* A sync has rewritten urls and kept the tracked window.
C15_Witness ==
  /\ last.op = "sync"
  /\ last.status = "ok"
  /\ \E k \in Opened(store) : \E i \in 1..Len(store[k].apps) :
       /\ store[k].apps[i].name = "chrome"
       /\ isOpened(store[k].apps[i])
       /\ store[k].apps[i].data.urls # <<"u1">>

\* C16: with no workspace focused, sync returns without raising an error and
\* leaves the persisted store as it was.
C16_SyncWithoutFocus ==
  [][(SyncStep /\ Opened(store) = {})
       => (last'.status # "throw" /\ store' = store)]_vars

\* C17: in the sync loop an iteration starts only after the iteration before
\* it has finished all its work, the write of the store included.
C17_LoopSerialized == loop.pc = "sync" => loop.writing = {}

\* C18: after selectWorkspace(B) has succeeded while another workspace A was
\* focused and all of A's tracked windows were alive, every tracked window of
\* A is in the scratchpad and every tracked window of B is on its workspace,
\* each command acting on the window its selector matches.
C18_WindowsPlaced ==
  [][(/\ SelectStep
      /\ last'.status = "ok"
      /\ \E a \in 1..Len(store) :
           /\ Opened(store) = {a}
           /\ store[a].name # last'.arg
           /\ store[a].apps # <<>>
           /\ \A i \in 1..Len(store[a].apps) :
                /\ isOpened(store[a].apps[i])
                /\ store[a].apps[i].i3WindowId \in TreeIds(tree))
     => /\ \A a \in Opened(store) : \A i \in 1..Len(store[a].apps) :
             Placement(last'.trace, store[a].apps[i].i3WindowId) = "scratchpad"
        /\ \A b \in Opened(store') : \A i \in 1..Len(store'[b].apps) :
             isOpened(store'[b].apps[i]) =>
               Placement(last'.trace, store'[b].apps[i].i3WindowId)
                 = store'[b].apps[i].i3Workspace]_vars

C20_StowOnlyOther ==
  [][(/\ SelectStep
      /\ NameInStore(last'.arg)
      /\ \/ Opened(store) = {}
         \/ Named(store, last'.arg) \in Opened(store))
     => Events(last'.trace, "scratchpad") = {}]_vars

\* C21: in the stow step of selectWorkspace a window is sent to the scratchpad
\* only if its tracked id is in the window-manager tree at that time; none is
\* sent for a tracked id whose window is gone.
C21_StowOnlyLive ==
  [][SelectStep =>
       \A ev \in Events(last'.trace, "scratchpad") : ev.id \in TreeIds(tree)]_vars

\* C22: after a selectWorkspace(b) that succeeded, the persisted store has b
\* focused and, for every app of b, exactly the window id that was passed to
\* moveToWindowWorkspace for that app in this call.
C22_CommitsFoundIds ==
  [][(SelectStep /\ last'.status = "ok") =>
       LET b == Named(store', last'.arg)
       IN /\ store'[b].isOpened
          /\ \A i \in 1..Len(store'[b].apps) :
               /\ EventsOf(last'.trace, "move", i) # {}
               /\ \A ev \in EventsOf(last'.trace, "move", i) :
                    store'[b].apps[i].i3WindowId = ev.id]_vars

C24_StageOrder ==
  [][SelectStep =>
       LET trace == last'.trace
       IN /\ \A j, k \in 1..Len(trace) :
               (trace[j].k = "scratchpad" /\ trace[k].k = "launch") => j < k
          /\ \A j, k \in 1..Len(trace) :
               (trace[j].k \in {"launch", "found", "stale"} /\ trace[k].k = "move")
                 => j < k
          /\ last'.status = "throw" => Events(trace, "move") = {}]_vars

\* C25: within one selectWorkspace at most one launch-and-discover is under
\* way at a time: an app is launched only after the app launched before it
\* has had its second snapshot taken and its window found.
C25_LaunchesSerialized ==
  [][SelectStep =>
       LET trace == last'.trace
       IN \A j, k \in 1..Len(trace) :
            (j < k /\ trace[j].k = "launch" /\ trace[k].k = "launch") =>
              \E f \in (j + 1)..(k - 1) :
                trace[f].k = "found" /\ trace[f].app = trace[j].app]_vars

\* A selectWorkspace that launched two apps.
C25_Witness ==
  /\ quiet
  /\ last.op = "select"
  /\ Cardinality(Events(last.trace, "launch")) = 2

\* C26: after the launch, discovery queries the tree again and again, a
\* bounded number of times, and stops at the first query that shows a new
\* window: a window missing from the first query after the launch and there
\* before the time is up is still found.
C26_LateWindowFound ==
  (/\ probe.level = "i3"
   /\ Discover(probe.before, probe.after) = <<>>
   /\ Len(Discover(probe.before, probe.late)) = 1)
  => /\ probe.error = ""
     /\ probe.id = Discover(probe.before, probe.late)[1]

\* C27: discovery and the liveness check go by the windows of the app's own
\* kind: a terminal app whose launch brings exactly one new terminal window
\* is opened under that window's id, and a terminal app whose tracked window
\* is alive is reused, not launched.
C27_OwnKindMatcher ==
  [][(SelectStep /\ NameInStore(last'.arg)) =>
       LET w == Named(store, last'.arg)
       IN \A i \in 1..Len(store[w].apps) :
            LET app == store[w].apps[i]
                fresh == TreeIds(tree') \ TreeIds(tree)
            IN /\ (/\ app.name = "tmux"
                   /\ ~isOpened(app)
                   /\ \E k \in 1..Len(last'.env) :
                        /\ last'.env[k].app = i
                        /\ last'.env[k].nt = 1
                        /\ last'.env[k].ni = 0)
                  => /\ last'.status = "ok"
                     /\ \A ev \in EventsOf(last'.trace, "move", i) : ev.id \in fresh
               /\ (/\ app.name = "tmux"
                   /\ isOpened(app)
                   /\ app.i3WindowId \in TreeIds(tree))
                  => /\ last'.status = "ok"
                     /\ NoLaunch(last'.trace)
                     /\ \A ev \in EventsOf(last'.trace, "move", i) :
                          ev.id = app.i3WindowId]_vars

\* C30: the browser window recorded for a launched app is never one that was
\* there before the launch, also when the mapping asked for before the launch
\* came back empty because the companion was not connected yet.
C30_RecordsNewWindow ==
  [][SelectStep =>
       \A w \in 1..Len(store') : \A i \in 1..Len(store'[w].apps) :
         LET was == store[w].apps[i].data.chromeWindowId
             now == store'[w].apps[i].data.chromeWindowId
         IN now # was => now \notin {browser[k].cw : k \in 1..Len(browser)}]_vars

\* C28: launchTool returns a stored opened tool without launching only if the
\* container the record names is in the window-manager tree at that time; a
\* record whose window is gone is never returned as the opened tool.
C28_ReusesOnlyLive ==
  [][(toolbox'.calls # toolbox.calls /\ toolbox'.last.status = "reused") =>
       toolbox'.last.containerId \in TreeIds(tree)]_vars

\* C29: a selectWorkspace and a sync iteration of the daemon that overlap
\* lose no update: once a focus is committed, a sync that read the store
\* before that does not write its older copy over it, so the workspace stays
\* recorded as focused when the write of the sync lands.
C29_NoLostFocus ==
  [][(/\ loop'.writing # loop.writing
      /\ store' # store
      /\ Focused(last) # ""
      /\ NameInStore(Focused(last))
      /\ store[Named(store, Focused(last))].isOpened)
     => store'[Named(store', Focused(last))].isOpened]_vars

\* ------------------------------------------------------------------ C31
\* C31: the companion's push loop never stops.  A send is made only from a
\* mapping collected for it and only while no earlier push of the loop is
\* still being read; every send attempt ends in the pause, with the answer
\* or with the failure to connect; and after the pause, whichever way the
\* attempt ended and whether or not a /get-tabs request is waiting, the loop
\* sends again.
C31_PushLoopGoesOn ==
  /\ [](companion.pc = "send" => inflight = {})
  /\ [][companion'.pc = "send" => companion.pc \in {"collect", "send"}]_vars
  /\ (companion.pc = "send") ~> (companion.pc = "wait")
  /\ \A l \in {"ok", "failed"} :
       (companion.pc = "wait" /\ companion.last = l) ~> (companion.pc = "send")

\* The loop is about to send again after a failed attempt while a /get-tabs
\* request is waiting.
C31_Witness ==
  /\ companion.pc = "send"
  /\ companion.last = "failed"
  /\ \E r \in 1..Len(requests) : requests[r].state = "waiting"

C34_ClosedSocketNotUsed ==
  [][(wsCall'.state = "sent" /\ wsCall.state # "sent") => wsCall.alive]_vars

\* ------------------------------------------------------------------ C35
\* All nodes of a tree, and the ids of those of a class.
RECURSIVE NodesIn(_)
NodesIn(node) ==
  {node} \cup UNION {NodesIn(node.nodes[k]) : k \in 1..Len(node.nodes)}
         \cup UNION {NodesIn(node.floating_nodes[k]) :
                     k \in 1..Len(node.floating_nodes)}

MatchingIn(node, className) ==
  {x.id : x \in {y \in NodesIn(node) : y.class = className}}

\* Every id of `early` stands before every id of `late` in the list.
AllBefore(list, early, late) ==
  \A j, k \in 1..Len(list) :
    list[j] \in late /\ list[k] \in early => k < j

\* C35: findNodeIdsByClass returns the ids of exactly the nodes whose class
\* is the given one, each once; a node's id stands before those of its
\* descendants, and the ids under a child stand before those under every
\* later child, the tiled children counted before the floating ones.
C35_PreOrderOfMatches ==
  (call.op = "findNodeIdsByClass" /\ call.done) =>
    LET root == call.arg[1]
        className == call.arg[2]
        result == call.result
    IN /\ {result[k] : k \in 1..Len(result)} = MatchingIn(root, className)
       /\ Len(result) = Cardinality(MatchingIn(root, className))
       /\ \A x \in NodesIn(root) :
            LET kids == x.nodes \o x.floating_nodes
            IN /\ \A k \in 1..Len(kids) :
                    AllBefore(result, {x.id}, MatchingIn(kids[k], className))
               /\ \A j, k \in 1..Len(kids) :
                    j < k => AllBefore(result, MatchingIn(kids[j], className),
                                               MatchingIn(kids[k], className))

\* A root with a tiled child that has a child of its own and with a floating
\* child, all four of the class looked for.
C35_Witness ==
  /\ call.op = "findNodeIdsByClass"
  /\ call.done
  /\ Len(call.result) = 4
  /\ Len(call.arg[1].nodes) = 1
  /\ Len(call.arg[1].floating_nodes) = 1
  /\ Len(call.arg[1].nodes[1].nodes) = 1

\* ------------------------------------------------------------------ C36
\* The benches of a list under a name.
Under(benches, name) ==
  {benches[k] : k \in {j \in 1..Len(benches) : benches[j].name = name}}

\* C36: after saveBench(b) on a store that could be read, getBenches
\* succeeds, returns b under its name as it reads b, and returns every bench
\* of another name as it was read before.
C36_SaveKeepsStore ==
  (call.op = "saved" /\ call.done /\ getBenches(call.arg[1]).ok) =>
    LET before == getBenches(call.arg[1]).value
        b == call.arg[2]
        read == call.result.read
    IN /\ read.ok
       /\ Under(read.value, b.name) = {validateBench(b).value}
       /\ \A k \in 1..Len(before) :
            before[k].name # b.name
              => Under(read.value, before[k].name) = Under(before, before[k].name)

\* ------------------------------------------------------------------ C38
\* A bench object without the keys the schema does not name, in its bays too.
WithoutUnknown(dict) ==
  BenchObject(dict.name,
              IF dict.bays.type = "array"
                THEN Arr([k \in 1..Len(dict.bays.items) |->
                            [dict.bays.items[k] EXCEPT !.legacy = Absent]])
                ELSE dict.bays,
              Absent, Absent)

\* The required keys are there and of the right type.
WellFormed(dict) ==
  /\ dict.name.type = "string"
  /\ dict.bays.type = "array"
  /\ \A k \in 1..Len(dict.bays.items) :
       /\ dict.bays.items[k].name.type = "string"
       /\ dict.bays.items[k].tools.type = "array"

\* C38: reading benches.json gives what reading the same records without
\* their unknown keys gives, and the read fails only when a record lacks a
\* required key or holds one of the wrong type.
C38_UnknownFieldsIgnored ==
  (call.op = "start" /\ call.done) =>
    LET file == call.arg[1]
        plain == [file EXCEPT !.items = [k \in 1..Len(file.items) |->
                                           WithoutUnknown(file.items[k])]]
    IN /\ call.result.read = getBenches(plain)
       /\ call.result.read.ok
            <=> \A k \in 1..Len(file.items) : WellFormed(file.items[k])
       /\ call.result.read.ok
            => \A k \in 1..Len(file.items) :
                 call.result.read.value[k] = WithoutUnknown(file.items[k])

\* A file was read whose record carries unknown keys, in the bench and in
\* its bay, and the read succeeded.
C38_Witness ==
  /\ call.op = "start"
  /\ call.done
  /\ call.result.read.ok
  /\ Len(call.arg[1].items) = 2
  /\ call.arg[1].items[1].legacy # Absent
  /\ call.arg[1].items[1].isActive # Absent
  /\ call.arg[1].items[1].bays.type = "array"
  /\ Len(call.arg[1].items[1].bays.items) = 1
  /\ call.arg[1].items[1].bays.items[1].legacy # Absent

\* ------------------------------------------------------------------ C37
\* The step is a newWorkspace, a removeWorkspace, run to its end.
NewStep == quiet' /\ last'.op = "new"

RemoveStep == quiet' /\ last'.op = "remove"

\* C37: newWorkspace with a name of the store and removeWorkspace with a
\* name not of the store report the error and leave the persisted store as
\* it was; newWorkspace with a new name appends one workspace of that name,
\* isOpened false, and leaves the others as they were.
C37_RefusedOrAppended ==
  [][/\ ((NewStep /\ NameInStore(last'.arg))
           => (/\ store' = store
               /\ last'.status = "return"
               /\ last'.error = "already exists"))
     /\ ((RemoveStep /\ ~NameInStore(last'.arg))
           => (/\ store' = store
               /\ last'.status = "return"
               /\ last'.error = "not found"))
     /\ ((NewStep /\ ~NameInStore(last'.arg))
           => (/\ Len(store') = Len(store) + 1
               /\ SubSeq(store', 1, Len(store)) = store
               /\ store'[Len(store')].name = last'.arg
               /\ ~store'[Len(store')].isOpened
               /\ last'.status = "ok"))]_vars

\* removeWorkspace was asked for a name the store does not hold, and
\* returned with the store not empty.
C37_Witness ==
  /\ last.op = "remove"
  /\ last.status = "return"
  /\ last.error = "not found"
  /\ ~NameInStore(last.arg)
  /\ store # <<>>

\* ------------------------------------------------------------------ C39
\* The characters of a directory after its last slash (all of them when it
\* has none).
AfterLastSlash(directory) ==
  LET slashes == {k \in 1..Len(directory) : directory[k] = "/"}
      from == IF slashes = {} THEN 1
              ELSE (CHOOSE k \in slashes : \A j \in slashes : j <= k) + 1
  IN SubSeq(directory, from, Len(directory))

\* C39: TmuxApp.openApp asks tmux for, and uses, the session named by the
\* last path component of the directory, tmux-session when that is empty;
\* it attaches when tmux has the session and else creates it in the
\* directory; it throws exactly when the terminal command did not succeed.
C39_TmuxSession ==
  (call.op = "TmuxApp.openApp" /\ call.done) =>
    LET directory == call.arg[1]
        r == call.result
        name == IF AfterLastSlash(directory) = <<>> THEN TmuxSession
                ELSE AfterLastSlash(directory)
    IN /\ r.checked = name
       /\ r.command.session = name
       /\ r.exists => r.command.verb = "attach-session"
       /\ ~r.exists => /\ r.command.verb = "new-session"
                       /\ r.command.inDirectory
                       /\ r.command.cd = directory
       /\ r.status = "throw" <=> ~r.success

\* A directory of two components: the session is created under the name of
\* the second and the terminal command fails.
C39_Witness ==
  /\ call.op = "TmuxApp.openApp"
  /\ call.done
  /\ call.arg[1] = <<"a", "/", "b">>
  /\ call.result.command.session = <<"b">>
  /\ ~call.result.exists
  /\ call.result.status = "throw"

====
